---- MODULE Spec2Model ----
(***************************************************************************)
(* Model of the archimedes HTTP client wrapper (src/client.go).            *)
(*                                                                         *)
(* Client.Do resolves the request's Host in the archimedes registry        *)
(* (service-level lookup, then instance-level lookup on 404), rebuilds the *)
(* request for the resolved host:port with NewRequest and hands it to the  *)
(* embedded net/http client.                                               *)
(*                                                                         *)
(* Strings whose structure the code inspects (host:port, URLs) are         *)
(* sequences of tokens, so that splitting, joining, formatting and parsing *)
(* are computed rather than assumed.                                       *)
(***************************************************************************)
EXTENDS Integers, Sequences, FiniteSets, TLC

(* ---------------------------- bounds ----------------------------------- *)

\* number of goroutines that call Do on the same Client
NumCallers == 2

\* number of Do calls made on the Client, all goroutines together
MaxCalls == 2

\* number of frames a goroutine's stack holds before the runtime gives up
\* (it stands for the runtime's limit on the size of a stack)
MaxStackDepth == 8

Callers == 1..NumCallers

(* ------------------------ program constants ---------------------------- *)

StatusOK == 200

StatusNotFound == 404

\* statuses of a registry answer that are neither 200 nor 404
FailureStatuses == {500, 504}

\* genericutils.TCP, the protocol suffix nat.NewPort attaches to a port
TCP == "/tcp"

(* --------------------------- values ------------------------------------ *)

\* the nil error
NoErr == [msg |-> "nil"]

\* the empty string, as a token sequence
Empty == <<>>

\* the empty header map of a fresh request
NoHeader == [k \in {} |-> ""]

\* logical addresses the callers use
OrdersAddr == <<"orders", "-", "service", "-", "7", ":", "8080">>

SvcAddr == <<"svc", "-", "1", ":", "9000">>

\* a Host without a port: net.SplitHostPort fails on it
NoPortAddr == <<"svc">>

\* tokens that are URL paths (they begin with '/')
PathTokens == {"/", "/orders/42", "/items"}

(* --------------------- net.SplitHostPort / URLs ------------------------ *)

\* positions of token t in s
Positions(s, t) == {i \in 1..Len(s) : s[i] = t}

\* smallest element of a non-empty set of integers
Min(S) == CHOOSE i \in S : \A j \in S : i <= j

SplitHostPort(hostPort) ==
    LET colons == Positions(hostPort, ":") IN
    IF colons = {} THEN
        [host |-> Empty, port |-> Empty,
         err |-> [msg |-> "missing port in address", addr |-> hostPort]]
    ELSE IF Cardinality(colons) > 1 THEN
        [host |-> Empty, port |-> Empty,
         err |-> [msg |-> "too many colons in address", addr |-> hostPort]]
    ELSE LET i == Min(colons) IN
        [host |-> SubSeq(hostPort, 1, i - 1),
         port |-> SubSeq(hostPort, i + 1, Len(hostPort)),
         err |-> NoErr]

\* nat.NewPort(genericutils.TCP, port): the port with its protocol
NewPort(port) == port \o <<TCP>>

\* nat.Port.Port(): the port without its protocol
PortOf(portWithProto) ==
    SubSeq(portWithProto, 1, Min(Positions(portWithProto, TCP)) - 1)

\* url.URL.String() for a URL with a scheme and a host
URLString(u) ==
    <<u.Scheme, "://">> \o u.Host
        \o (IF u.Path = "" THEN <<>> ELSE <<u.Path>>)
        \o (IF u.RawQuery = "" THEN <<>> ELSE <<"?", u.RawQuery>>)
        \o (IF u.Fragment = "" THEN <<>> ELSE <<"#", u.Fragment>>)

\* url.Parse of an absolute URL
ParseURL(s) ==
    LET hashes == Positions(s, "#")
        fragAt == IF hashes = {} THEN Len(s) + 1 ELSE Min(hashes)
        noFrag == SubSeq(s, 1, fragAt - 1)
        marks  == Positions(noFrag, "?")
        qAt    == IF marks = {} THEN Len(noFrag) + 1 ELSE Min(marks)
        noQ    == SubSeq(noFrag, 1, qAt - 1)
        paths  == {i \in 3..Len(noQ) : noQ[i] \in PathTokens}
        pAt    == IF paths = {} THEN Len(noQ) + 1 ELSE Min(paths)
    IN  [Scheme   |-> s[1],
         Host     |-> SubSeq(noQ, 3, pAt - 1),
         Path     |-> IF paths = {} THEN "" ELSE noQ[pAt],
         RawQuery |-> IF marks = {} THEN "" ELSE noFrag[qAt + 1],
         Fragment |-> IF hashes = {} THEN "" ELSE s[fragAt + 1]]

\* methods NewRequest accepts
ValidMethods == {"GET", "POST", "HEAD"}

\* NewRequest(method, url, body): a fresh request, with an empty header map
NewRequest(method, url, body) ==
    IF method \notin ValidMethods THEN
        [req |-> [Method |-> method, URL |-> ParseURL(url), Host |-> Empty,
                  Header |-> NoHeader, Body |-> body],
         err |-> [msg |-> "invalid method", method |-> method]]
    ELSE
        [req |-> [Method |-> method, URL |-> ParseURL(url),
                  Host |-> ParseURL(url).Host,
                  Header |-> NoHeader, Body |-> body],
         err |-> NoErr]

\* Request.ToOriginalRequest: Request is an alias of net/http's Request
ToOriginalRequest(r) == r

\* FromOriginalToCustomResponse: Response is an alias of net/http's Response
FromOriginalToCustomResponse(resp) == resp

(* ------------------------ callers' requests ---------------------------- *)

\* NewRequest followed by the caller's Header.Set calls
CallerRequest(method, addr, path, query, frag, header, body) ==
    [NewRequest(method,
                URLString([Scheme |-> "http", Host |-> addr, Path |-> path,
                           RawQuery |-> query, Fragment |-> frag]),
                body).req
        EXCEPT !.Header = header]

GetOrders == CallerRequest("GET", OrdersAddr, "/orders/42", "full=1", "top",
                           NoHeader, "")

\* the request Client.Post hands to Do: NewRequest("POST", url, body) with the
\* Content-Type header set to contentType (lines 496-502)
Post(url, contentType, body) ==
    [NewRequest("POST", url, body).req
        EXCEPT !.Header = [k \in {"Content-Type"} |-> contentType]]

\* url.Values.Encode() of the form data: key=value pairs joined by '&'
Encode(data) ==
    IF data = <<>> THEN <<>>
    ELSE LET pair(i) == <<data[i].key, "=", data[i].value>>
             RECURSIVE join(_)
             join(i) == IF i = Len(data) THEN pair(i)
                        ELSE pair(i) \o <<"&">> \o join(i + 1)
         IN  join(1)

\* the request Client.PostForm hands to Do, through Post (line 517)
PostForm(url, data) ==
    Post(url, "application/x-www-form-urlencoded", Encode(data))

SvcItemsURL ==
    URLString([Scheme |-> "http", Host |-> SvcAddr, Path |-> "/items",
               RawQuery |-> "", Fragment |-> ""])

\* c.PostForm("http://svc-1:9000/items", {item: 7, qty: 2})
PostFormSvc ==
    PostForm(SvcItemsURL, <<[key |-> "item", value |-> "7"],
                            [key |-> "qty", value |-> "2"]>>)

GetNoPort == CallerRequest("GET", NoPortAddr, "/", "", "", NoHeader, "")

Requests == {GetOrders, PostFormSvc, GetNoPort}

(* ----------------------------- clients ---------------------------------- *)

\* the zero value of net/http's Client, which originalHttpClient keeps: no
\* code assigns the field
ZeroHttpClient == [Transport |-> "nil", Timeout |-> 0]

\* DefaultClient = &Client{}
DefaultClient ==
    [Transport |-> "nil", Timeout |-> 0, originalHttpClient |-> ZeroHttpClient]

\* a Client whose exported fields Transport and Timeout the caller has set
ConfiguredClient ==
    [Transport |-> "custom", Timeout |-> 30,
     originalHttpClient |-> ZeroHttpClient]

Clients == {DefaultClient, ConfiguredClient}

\* how net/http's Client.Do makes a round trip: through its Transport field,
\* or DefaultTransport when that is nil, under its Timeout (0: no limit)
RoundTripVia(httpClient) ==
    [transport |-> IF httpClient.Transport = "nil" THEN "DefaultTransport"
                   ELSE httpClient.Transport,
     timeout |-> httpClient.Timeout]

(* ----------------------- registry answers ------------------------------- *)

\* an instance the registry does not describe (the zero value of the map)
ZeroInstance == [Ip |-> "", Local |-> FALSE, PortTranslation |-> <<>>]

LocalInstance == [Ip |-> "10.0.0.5", Local |-> TRUE, PortTranslation |-> <<>>]

RemoteInstance ==
    [Ip |-> "10.0.0.6", Local |-> FALSE,
     PortTranslation |->
        (<<"8080", TCP>> :> <<[HostPort |-> "30080"], [HostPort |-> "30081"]>>)
        @@ (<<"9000", TCP>> :> <<[HostPort |-> "30090"]>>)]

\* CompletedServiceDTO bodies of a 200 answer to the service-level lookup
ServiceTwoInstances ==
    [Ports |-> {<<"8080", TCP>>, <<"9000", TCP>>},
     InstancesIds |-> <<"i1", "i2">>,
     InstancesMap |-> ("i1" :> LocalInstance) @@ ("i2" :> RemoteInstance)]

ServiceOtherPort ==
    [Ports |-> {<<"443", TCP>>},
     InstancesIds |-> <<"i1">>,
     InstancesMap |-> ("i1" :> LocalInstance)]

ServiceNoInstances ==
    [Ports |-> {<<"8080", TCP>>, <<"9000", TCP>>},
     InstancesIds |-> <<>>,
     InstancesMap |-> <<>>]

ServiceBodies == {ServiceTwoInstances, ServiceOtherPort, ServiceNoInstances}

\* CompletedInstanceDTO bodies of a 200 answer to the instance-level lookup
InstanceBodies ==
    {[Ports |-> {<<"8080", TCP>>, <<"9000", TCP>>}, Instance |-> RemoteInstance],
     [Ports |-> {<<"8080", TCP>>, <<"9000", TCP>>}, Instance |-> LocalInstance],
     [Ports |-> {<<"443", TCP>>}, Instance |-> LocalInstance]}

NoBody == [Ports |-> {}]

\* what c.originalHttpClient.Do(archReq) can give back: an error, or a
\* response with a status and a body
Answers(bodies) ==
    {[kind |-> "error", StatusCode |-> 0, Body |-> NoBody]}
    \cup {[kind |-> "response", StatusCode |-> s, Body |-> NoBody] :
            s \in {StatusNotFound} \cup FailureStatuses}
    \cup {[kind |-> "response", StatusCode |-> StatusOK, Body |-> b] : b \in bodies}

\* the values rand.Intn(len(service.InstancesIds)) can draw for an answer
\* (it panics, whatever the value, when the list is empty)
RandValues(ans) ==
    IF ans.kind = "response" /\ ans.StatusCode = StatusOK
       /\ Len(ans.Body.InstancesIds) > 0
    THEN 0..(Len(ans.Body.InstancesIds) - 1)
    ELSE {0}

(* -------------------------- resolution --------------------------------- *)

\* StatusError that formats the host in place of the host:port
StatusErrorNamesHost(code, hostPort) ==
    [msg |-> "got status while resolving in archimedes",
     code |-> code, addr |-> SplitHostPort(hostPort).host]

\* fmt.Sprintf("got status %d while resolving %s in archimedes", ...)
StatusError(code, hostPort) ==
    [msg |-> "got status while resolving in archimedes",
     code |-> code, addr |-> hostPort]

\* fmt.Sprintf("port is not valid for service %s", host)
PortError(host) == [msg |-> "port is not valid for service", host |-> host]

Return(resolvedHostPort, err) ==
    [kind |-> "return", resolvedHostPort |-> resolvedHostPort, err |-> err]

Panic(v) == [kind |-> "panic", resolvedHostPort |-> Empty, err |-> v]

\* instance.PortTranslation[portWithProto][0].HostPort, or a panic when the
\* instance has no translation for the port
TranslatedPort(instance, portWithProto) ==
    IF portWithProto \in DOMAIN instance.PortTranslation
       /\ Len(instance.PortTranslation[portWithProto]) > 0
    THEN [ok |-> TRUE, port |-> instance.PortTranslation[portWithProto][1].HostPort]
    ELSE [ok |-> FALSE, port |-> ""]

\* lines 339-346 and 400-407: the address of an instance for a port
InstanceAddress(instance, portWithProto) ==
    IF instance.Local
    THEN Return(<<instance.Ip, ":">> \o PortOf(portWithProto), NoErr)
    ELSE IF TranslatedPort(instance, portWithProto).ok
    THEN Return(<<instance.Ip, ":", TranslatedPort(instance, portWithProto).port>>,
                NoErr)
    ELSE Panic([msg |-> "index out of range"])

\* resolveInstanceInArchimedes that treats a 404 like any other failure status
resolveInstanceNotFoundIsError(hostPort, ans) ==
    LET split == SplitHostPort(hostPort)
        portWithProto == NewPort(split.port)
    IN  IF split.err # NoErr THEN Panic(split.err)
        ELSE IF ans.kind = "error" THEN Panic([msg |-> "registry unreachable"])
        ELSE IF ans.StatusCode # StatusOK
             THEN Return(Empty, StatusError(ans.StatusCode, hostPort))
        ELSE IF portWithProto \notin ans.Body.Ports
             THEN Return(Empty, PortError(split.host))
        ELSE InstanceAddress(ans.Body.Instance, portWithProto)

\* resolveInstanceInArchimedes(hostPort), given the registry's answer
resolveInstanceInArchimedes(hostPort, ans) ==
    LET split == SplitHostPort(hostPort)
        portWithProto == NewPort(split.port)
    IN  IF split.err # NoErr THEN Panic(split.err)
        ELSE IF ans.kind = "error" THEN Panic([msg |-> "registry unreachable"])
        ELSE IF ans.StatusCode = StatusNotFound THEN Return(hostPort, NoErr)
        ELSE IF ans.StatusCode # StatusOK
             THEN Return(Empty, StatusError(ans.StatusCode, hostPort))
        ELSE IF portWithProto \notin ans.Body.Ports
             THEN Return(Empty, PortError(split.host))
        ELSE InstanceAddress(ans.Body.Instance, portWithProto)

\* resolveServiceInArchimedes(hostPort), given the registry's answer to the
\* service-level lookup, the value n that rand.Intn draws, and the outcome
\* of the instance-level resolution it falls back to on a 404
resolveServiceInArchimedes(hostPort, ans, n, instanceOutcome) ==
    LET split == SplitHostPort(hostPort)
        portWithProto == NewPort(split.port)
        service == ans.Body
    IN  IF split.err # NoErr THEN Panic(split.err)
        ELSE IF ans.kind = "error" THEN Panic([msg |-> "registry unreachable"])
        ELSE IF ans.StatusCode = StatusNotFound THEN
            IF instanceOutcome.kind = "return" /\ instanceOutcome.err # NoErr
            THEN Return(Empty, instanceOutcome.err)
            ELSE instanceOutcome
        ELSE IF ans.StatusCode # StatusOK
             THEN Return(Empty, StatusError(ans.StatusCode, hostPort))
        ELSE IF portWithProto \notin service.Ports
             THEN Return(Empty, PortError(split.host))
        ELSE IF Len(service.InstancesIds) = 0
             THEN Panic([msg |-> "invalid argument to Intn"])
        ELSE LET randInstanceId == service.InstancesIds[n + 1]
                 instance == IF randInstanceId \in DOMAIN service.InstancesMap
                             THEN service.InstancesMap[randInstanceId]
                             ELSE ZeroInstance
             IN  InstanceAddress(instance, portWithProto)

(* ---------------------------- transport -------------------------------- *)

NoResponse == [StatusCode |-> 0]

\* errors the embedded client's Do reports for a send
SendErrors ==
    {[msg |-> "i/o timeout"], [msg |-> "no route to host"],
     [msg |-> "connection refused"]}

\* what c.originalHttpClient.Do(request) can give back
SendResults(request) ==
    {[resp |-> [StatusCode |-> StatusOK, Request |-> request], err |-> NoErr]}
    \cup {[resp |-> NoResponse, err |-> e] : e \in SendErrors}

(* ------------------------------ state ----------------------------------- *)

VARIABLES
    client,             \* the Client the goroutines share (the receiver c)
    pc,                 \* where each goroutine is in Do
    arg,                \* the request the goroutine passed to Do
    req,                \* Do's variable req (reassigned at line 273)
    resolvedHostPort,   \* Do's variable resolvedHostPort
    lookups,            \* registry lookups the goroutine's Do call has made
    prior,              \* history: known[arg.Host] when the call was made
    ncalls,             \* Do calls made so far
    known,              \* history: the registry's last verdict on each address
    last                \* history: the Do call that ended last, and how

doVars == <<client, pc, arg, req, resolvedHostPort, lookups, prior, ncalls,
            known, last>>

LogicalAddrs == {r.Host : r \in Requests}

NoRequest == NewRequest("GET", <<"http", "://">>, "").req

\* the record of a Do call that ended: kind is "return" or "panic"
Outcome(kind, a, pr, lk, resolved, sent, resp, err) ==
    [kind |-> kind, arg |-> a, prior |-> pr, lookups |-> lk,
     resolvedHostPort |-> resolved, sends |-> sent, resp |-> resp, err |-> err]

NoCall == Outcome("none", NoRequest, "unknown", <<>>, Empty, <<>>,
                  NoResponse, NoErr)

\* no Do call has been made
NoCalls ==
    /\ pc = [p \in Callers |-> "idle"]
    /\ arg = [p \in Callers |-> NoRequest]
    /\ req = [p \in Callers |-> NoRequest]
    /\ resolvedHostPort = [p \in Callers |-> Empty]
    /\ lookups = [p \in Callers |-> <<>>]
    /\ prior = [p \in Callers |-> "unknown"]
    /\ ncalls = 0
    /\ known = [a \in LogicalAddrs |-> "unknown"]
    /\ last = NoCall

(* --------------------- HandleFunc, MaxBytesReader ----------------------- *)

VARIABLES
    stack,              \* the frames of the goroutine that called a wrapper
    ended,              \* how the wrapper call ended, once it has
    mux                 \* the handlers registered in the DefaultServeMux

serverVars == <<stack, ended, mux>>

\* calls of HandleFunc(pattern, handler) and of MaxBytesReader(w, r, n)
WrapperCalls ==
    {[fn |-> "HandleFunc", pattern |-> pt, handler |-> h] :
        pt \in {"/", "/items", "/orders/"}, h \in {"listItems", "getOrder"}}
    \cup {[fn |-> "MaxBytesReader", w |-> "w", r |-> r, n |-> n] :
            r \in {"body1", "body2"}, n \in {-1, 0, 1024}}

NotEnded == [how |-> "running"]

NoWrapperCalls ==
    /\ stack = <<>>
    /\ ended = NotEnded
    /\ mux = {}

\* a goroutine calls HandleFunc or MaxBytesReader
WrapperCall(call) ==
    /\ stack = <<>>
    /\ ended = NotEnded
    /\ stack' = <<call>>
    /\ UNCHANGED <<ended, mux, doVars>>

\* the body of HandleFunc (server.go:154) and of MaxBytesReader
\* (request.go:52): a call of the function itself, same arguments
WrapperBody ==
    /\ stack # <<>>
    /\ Len(stack) < MaxStackDepth
    /\ stack' = Append(stack, stack[Len(stack)])
    /\ UNCHANGED <<ended, mux, doVars>>

\* the stack has reached the runtime's limit: fatal error, the process dies
StackOverflow ==
    /\ Len(stack) = MaxStackDepth
    /\ ended' = [how |-> "fatal error: stack overflow", call |-> stack[1]]
    /\ stack' = <<>>
    /\ UNCHANGED <<mux, doVars>>

(* ------------------------- initial states ------------------------------ *)

vars == <<doVars, serverVars>>

\* the goroutines share DefaultClient, the Client of the package-level Get,
\* Head and Post
Init == client = DefaultClient /\ NoCalls /\ NoWrapperCalls

\* the goroutines share any Client a caller can build
InitAnyClient == client \in Clients /\ NoCalls /\ NoWrapperCalls

(* ------------------------------- Do ------------------------------------- *)

\* DoRewrite that leaves the caller's host in the new URL
DoRewriteKeepsHost(r, resolved) ==
    LET oldUrl == r.URL
        newUrl == [Scheme |-> oldUrl.Scheme, Host |-> oldUrl.Host,
                   Path |-> oldUrl.Path, RawQuery |-> oldUrl.RawQuery,
                   Fragment |-> oldUrl.Fragment]
    IN  NewRequest(r.Method, URLString(newUrl), r.Body)

\* lines 260-276: the request for the resolved address
DoRewrite(r, resolved) ==
    LET oldUrl == r.URL
        newUrl == [Scheme |-> oldUrl.Scheme, Host |-> resolved,
                   Path |-> oldUrl.Path, RawQuery |-> oldUrl.RawQuery,
                   Fragment |-> oldUrl.Fragment]
    IN  NewRequest(r.Method, URLString(newUrl), r.Body)

\* the registry lookup a resolution step makes, and the answer it got
Lookup(level, hostPort, ans) ==
    [level |-> level, host |-> SplitHostPort(hostPort).host,
     via |-> RoundTripVia(client.originalHttpClient),
     kind |-> ans.kind, status |-> ans.StatusCode, ports |-> ans.Body.Ports]

\* the goroutine leaves Do, by a return or by a panic (which its caller may
\* recover from): its locals are gone
Leave(p) ==
    /\ pc' = [pc EXCEPT ![p] = "idle"]
    /\ arg' = [arg EXCEPT ![p] = NoRequest]
    /\ req' = [req EXCEPT ![p] = NoRequest]
    /\ resolvedHostPort' = [resolvedHostPort EXCEPT ![p] = Empty]
    /\ lookups' = [lookups EXCEPT ![p] = <<>>]
    /\ prior' = [prior EXCEPT ![p] = "unknown"]

\* panic(v) in Do or below it: Do returns nothing
DoPanic(p, a, pr, lk, resolved, v) ==
    /\ Leave(p)
    /\ last' = Outcome("panic", a, pr, lk, resolved, <<>>, NoResponse, v)

\* DoResolved that keeps the rewritten request where the goroutines share it
\* (a field of the Client in place of Do's local variable)
DoResolvedSharesRequest(p, outcome, lk) ==
    IF outcome.kind = "panic" \/ outcome.err # NoErr THEN
        DoPanic(p, arg[p], prior[p], lk, Empty, outcome.err)
    ELSE LET new == DoRewrite(req[p], outcome.resolvedHostPort) IN
        IF new.err # NoErr
        THEN DoPanic(p, arg[p], prior[p], lk, outcome.resolvedHostPort, new.err)
        ELSE /\ pc' = [pc EXCEPT ![p] = "send"]
             /\ req' = [q \in Callers |->
                            IF q = p \/ pc[q] = "send" THEN new.req ELSE req[q]]
             /\ resolvedHostPort' =
                    [resolvedHostPort EXCEPT ![p] = outcome.resolvedHostPort]
             /\ lookups' = [lookups EXCEPT ![p] = lk]
             /\ UNCHANGED <<arg, prior, last>>

\* DoResolved that returns the resolution error to the caller
DoResolvedReturnsError(p, outcome, lk) ==
    IF outcome.kind = "panic" THEN
        DoPanic(p, arg[p], prior[p], lk, Empty, outcome.err)
    ELSE IF outcome.err # NoErr THEN
        /\ Leave(p)
        /\ last' = Outcome("return", arg[p], prior[p], lk, Empty, <<>>,
                           NoResponse, outcome.err)
    ELSE LET new == DoRewrite(req[p], outcome.resolvedHostPort) IN
        IF new.err # NoErr
        THEN DoPanic(p, arg[p], prior[p], lk, outcome.resolvedHostPort, new.err)
        ELSE /\ pc' = [pc EXCEPT ![p] = "send"]
             /\ req' = [req EXCEPT ![p] = new.req]
             /\ resolvedHostPort' =
                    [resolvedHostPort EXCEPT ![p] = outcome.resolvedHostPort]
             /\ lookups' = [lookups EXCEPT ![p] = lk]
             /\ UNCHANGED <<arg, prior, last>>

\* Do from the return of resolveServiceInArchimedes (line 255) up to the
\* send: it panics on an error, else rewrites the request; lk is the list
\* of lookups the resolution made
DoResolved(p, outcome, lk) ==
    IF outcome.kind = "panic" \/ outcome.err # NoErr THEN
        DoPanic(p, arg[p], prior[p], lk, Empty, outcome.err)
    ELSE LET new == DoRewrite(req[p], outcome.resolvedHostPort) IN
        IF new.err # NoErr
        THEN DoPanic(p, arg[p], prior[p], lk, outcome.resolvedHostPort, new.err)
        ELSE /\ pc' = [pc EXCEPT ![p] = "send"]
             /\ req' = [req EXCEPT ![p] = new.req]
             /\ resolvedHostPort' =
                    [resolvedHostPort EXCEPT ![p] = outcome.resolvedHostPort]
             /\ lookups' = [lookups EXCEPT ![p] = lk]
             /\ UNCHANGED <<arg, prior, last>>

\* a goroutine calls c.Do(r); resolveServiceInArchimedes splits the host
\* (line 286) and panics when it has no port
DoCall(p, r) ==
    /\ pc[p] = "idle"
    /\ ncalls < MaxCalls
    /\ ncalls' = ncalls + 1
    /\ IF SplitHostPort(r.Host).err # NoErr
       THEN DoPanic(p, r, known[r.Host], <<>>, Empty, SplitHostPort(r.Host).err)
       ELSE /\ pc' = [pc EXCEPT ![p] = "service"]
            /\ arg' = [arg EXCEPT ![p] = r]
            /\ req' = [req EXCEPT ![p] = r]
            /\ prior' = [prior EXCEPT ![p] = known[r.Host]]
            /\ UNCHANGED <<resolvedHostPort, lookups, last>>
    /\ UNCHANGED <<serverVars, client, known>>

\* ServiceLookup that falls back to the instance-level lookup on every
\* status other than 200, not on 404 alone
ServiceLookupFallsBackOnAnyFailure(p, ans, n) ==
    /\ pc[p] = "service"
    /\ LET lk == Append(lookups[p], Lookup("service", req[p].Host, ans)) IN
       IF ans.kind = "response" /\ ans.StatusCode # StatusOK
       THEN /\ pc' = [pc EXCEPT ![p] = "instance"]
            /\ lookups' = [lookups EXCEPT ![p] = lk]
            /\ UNCHANGED <<arg, req, resolvedHostPort, prior, known, last>>
       ELSE LET outcome == resolveServiceInArchimedes(req[p].Host, ans, n,
                                                      Return(Empty, NoErr)) IN
            /\ DoResolved(p, outcome, lk)
            /\ known' = IF outcome.kind = "return" /\ outcome.err = NoErr
                        THEN [known EXCEPT ![req[p].Host] = "found"]
                        ELSE known
    /\ UNCHANGED <<serverVars, client, ncalls>>

\* the registry answers the service-level lookup (line 303); unless the
\* answer is a 404, resolution ends and Do goes on to the rewrite
ServiceLookup(p, ans, n) ==
    /\ pc[p] = "service"
    /\ LET lk == Append(lookups[p], Lookup("service", req[p].Host, ans)) IN
       IF ans.kind = "response" /\ ans.StatusCode = StatusNotFound
       THEN /\ pc' = [pc EXCEPT ![p] = "instance"]
            /\ lookups' = [lookups EXCEPT ![p] = lk]
            /\ UNCHANGED <<arg, req, resolvedHostPort, prior, known, last>>
       ELSE LET outcome == resolveServiceInArchimedes(req[p].Host, ans, n,
                                                      Return(Empty, NoErr)) IN
            /\ DoResolved(p, outcome, lk)
            /\ known' = IF outcome.kind = "return" /\ outcome.err = NoErr
                        THEN [known EXCEPT ![req[p].Host] = "found"]
                        ELSE known
    /\ UNCHANGED <<serverVars, client, ncalls>>

\* the registry answers the instance-level lookup (line 371) that follows a
\* service-level 404; resolveServiceInArchimedes hands its result on
InstanceLookup(p, ans) ==
    /\ pc[p] = "instance"
    /\ LET lk == Append(lookups[p], Lookup("instance", req[p].Host, ans))
           notFound == [kind |-> "response", StatusCode |-> StatusNotFound,
                        Body |-> NoBody]
           outcome == resolveServiceInArchimedes(req[p].Host, notFound, 0,
                          resolveInstanceInArchimedes(req[p].Host, ans))
       IN  /\ DoResolved(p, outcome, lk)
           /\ known' = IF outcome.kind = "return" /\ outcome.err = NoErr
                       THEN [known EXCEPT ![req[p].Host] =
                                IF ans.StatusCode = StatusOK THEN "found"
                                                             ELSE "notfound"]
                       ELSE known
    /\ UNCHANGED <<serverVars, client, ncalls>>

\* Send that drops the transport's error
SendSwallowsError(p, result) ==
    /\ pc[p] = "send"
    /\ last' = Outcome("return", arg[p], prior[p], lookups[p],
                       resolvedHostPort[p],
                       <<[request |-> ToOriginalRequest(req[p]),
                         via |-> RoundTripVia(client.originalHttpClient),
                         err |-> result.err]>>,
                       FromOriginalToCustomResponse(result.resp), NoErr)
    /\ Leave(p)
    /\ UNCHANGED <<serverVars, client, ncalls, known>>

\* lines 278-280: the request goes to the embedded client, and Do returns
\* what it gave back
Send(p, result) ==
    /\ pc[p] = "send"
    /\ last' = Outcome("return", arg[p], prior[p], lookups[p],
                       resolvedHostPort[p],
                       <<[request |-> ToOriginalRequest(req[p]),
                         via |-> RoundTripVia(client.originalHttpClient),
                         err |-> result.err]>>,
                       FromOriginalToCustomResponse(result.resp), result.err)
    /\ Leave(p)
    /\ UNCHANGED <<serverVars, client, ncalls, known>>

Next ==
    \E p \in Callers :
        \/ \E r \in Requests : DoCall(p, r)
        \/ \E ans \in Answers(ServiceBodies) : \E n \in RandValues(ans) :
                ServiceLookup(p, ans, n)
        \/ \E ans \in Answers(InstanceBodies) : InstanceLookup(p, ans)
        \/ \E result \in SendResults(ToOriginalRequest(req[p])) : Send(p, result)

Spec == Init /\ [][Next]_vars

SpecAnyClient == InitAnyClient /\ [][Next]_vars

\* the server-side wrappers, called by a program that makes no Do call
NextServer ==
    \/ \E call \in WrapperCalls : WrapperCall(call)
    \/ WrapperBody
    \/ StackOverflow

SpecServer == Init /\ [][NextServer]_vars

(* ------------------------- shared vocabulary ---------------------------- *)

\* the calls that can be observed: the one that ended last, and the part
\* done so far of those under way
Under(p) ==
    Outcome("underway", arg[p], prior[p], lookups[p], resolvedHostPort[p],
            <<>>, NoResponse, NoErr)

Observed == {last} \cup {Under(p) : p \in {q \in Callers : pc[q] # "idle"}}

\* resolution is over for call c: Do is past line 255
ResolutionOver(c) ==
    /\ c.lookups # <<>>
    /\ \/ c.kind \in {"return", "panic"}
       \/ c.resolvedHostPort # Empty

LastLookup(c) == c.lookups[Len(c.lookups)]

\* the registry's last answer for the call found the address
RegistryFound(c) ==
    /\ c.lookups # <<>>
    /\ LastLookup(c).kind = "response"
    /\ LastLookup(c).status = StatusOK

\* the addresses of the instances the registry names, for the port of a
\* logical address
InstanceAddrs(hostPort) ==
    LET port == SplitHostPort(hostPort).port IN
    {<<LocalInstance.Ip, ":">> \o port,
     <<RemoteInstance.Ip, ":",
       RemoteInstance.PortTranslation[port \o <<TCP>>][1].HostPort>>}

(* ------------------------------- C1 ------------------------------------- *)

\* C1: every request a Do call hands to the transport is addressed to the
\* address resolution returned for the caller's host:port; no send happens
\* before resolution has returned; and when the registry found the address
\* the send goes to an instance address, never to the logical one.
C1_SendsGoToResolvedAddress ==
    /\ \A i \in 1..Len(last.sends) :
        /\ ResolutionOver(last)
        /\ last.sends[i].request.URL.Host = last.resolvedHostPort
        /\ last.sends[i].request.Host = last.resolvedHostPort
        /\ RegistryFound(last) =>
            /\ last.sends[i].request.URL.Host # last.arg.Host
            /\ last.sends[i].request.URL.Host \in InstanceAddrs(last.arg.Host)
    /\ \A p \in Callers :
        pc[p] = "send" =>
            /\ lookups[p] # <<>>
            /\ req[p].URL.Host = resolvedHostPort[p]
            /\ RegistryFound(Under(p)) =>
                    req[p].URL.Host \in InstanceAddrs(arg[p].Host)

\* a Do call returned after sending to the translated port of the remote
\* instance the registry named for orders-service-7:8080
C1_Witness ==
    /\ last.kind = "return"
    /\ last.arg.Host = OrdersAddr
    /\ RegistryFound(last)
    /\ Len(last.sends) = 1
    /\ last.sends[1].request.URL.Host = <<"10.0.0.6", ":", "30080">>

(* ------------------------------- C2 ------------------------------------- *)

\* the fields of a request other than its destination
Frame(r) ==
    [Method |-> r.Method, Scheme |-> r.URL.Scheme, Path |-> r.URL.Path,
     RawQuery |-> r.URL.RawQuery, Fragment |-> r.URL.Fragment,
     Header |-> r.Header, Body |-> r.Body]

\* C2: the request handed to the transport differs from the caller's request
\* only in its destination host:port: method, scheme, path, query, fragment,
\* headers and body are those of the request passed to Do.
C2_OnlyDestinationChanges ==
    \A i \in 1..Len(last.sends) :
        Frame(last.sends[i].request) = Frame(last.arg)

(* ------------------------------- C3 ------------------------------------- *)

NotFoundAnswer(l) == l.kind = "response" /\ l.status = StatusNotFound

\* the call got a not-found answer from the registry
SomeLookupNotFound(c) ==
    \E i \in 1..Len(c.lookups) : NotFoundAnswer(c.lookups[i])

\* the call got not-found from the service-level lookup and from the
\* instance-level lookup that followed it
BothLookupsNotFound(c) ==
    /\ Len(c.lookups) = 2
    /\ \A i \in 1..2 : NotFoundAnswer(c.lookups[i])

\* resolution gave the original host:port and no error, and what was sent
\* went there
PassedThrough(c) ==
    /\ c.kind # "panic"
    /\ c.resolvedHostPort = c.arg.Host
    /\ c.kind = "return" =>
        /\ Len(c.sends) = 1
        /\ c.sends[1].request.URL.Host = c.arg.Host

\* C3 as stated: when the registry reports not-found for a logical address,
\* resolution returns the original host:port with no error and Do sends the
\* request there.
C3_NotFoundPassesThrough ==
    \A c \in Observed :
        ResolutionOver(c) /\ c.kind # "panic" /\ SomeLookupNotFound(c)
            => PassedThrough(c)

\* C3 amended: when the registry reports not-found for the service-level
\* lookup and for the instance-level lookup that follows it, resolution
\* returns the original host:port with no error and Do sends the request
\* there; nothing is remembered, so a Do call for an address that was not
\* found before asks the registry again.
C3_NotFoundAtBothLevelsPassesThrough ==
    /\ \A c \in Observed :
        ResolutionOver(c) /\ BothLookupsNotFound(c) => PassedThrough(c)
    /\ last.prior = "notfound" =>
        /\ last.lookups # <<>>
        /\ last.lookups[1].level = "service"
    /\ \A p \in Callers :
        prior[p] = "notfound" /\ pc[p] # "service" =>
            /\ lookups[p] # <<>>
            /\ lookups[p][1].level = "service"

\* a Do call for svc-1:9000, not found by an earlier call, asked the
\* registry again, got not-found twice and sent to svc-1:9000
C3_Witness ==
    /\ last.kind = "return"
    /\ last.prior = "notfound"
    /\ last.arg.Host = SvcAddr
    /\ BothLookupsNotFound(last)
    /\ Len(last.sends) = 1
    /\ last.sends[1].request.URL.Host = SvcAddr

(* ------------------------------- C4 ------------------------------------- *)

\* C4: after a Do call has resolved logical address A through the registry,
\* a later Do call for A uses the remembered address and makes no registry
\* lookup.
C4_ResolvedAddressIsReused ==
    \A c \in Observed : c.prior = "found" => c.lookups = <<>>

(* ------------------------------- C5 ------------------------------------- *)

\* the network errors the retry rule names
RetriableErrors == {[msg |-> "i/o timeout"], [msg |-> "no route to host"]}

\* C5: when the first send of a Do call for an already resolved address
\* fails with a timeout or no-route-to-host error, Do resolves again and
\* resends exactly once, and returns the result of the second send.
C5_FailedSendToKnownAddressIsRetriedOnce ==
    (/\ last.kind = "return"
     /\ last.prior = "found"
     /\ last.sends # <<>>
     /\ last.sends[1].err \in RetriableErrors)
    => /\ Len(last.sends) = 2
       /\ last.err = last.sends[2].err

(* ------------------------------- C6 ------------------------------------- *)

\* C6: when the send of a Do call fails and the address came from the
\* registry in this call, or the error is not a timeout/no-route-to-host
\* condition, Do sends nothing more and returns the transport's error.
C6_SendFailureIsReturnedAsIs ==
    (/\ last.sends # <<>>
     /\ last.sends[1].err # NoErr
     /\ (last.lookups # <<>> \/ last.sends[1].err \notin RetriableErrors))
    => /\ Len(last.sends) = 1
       /\ last.kind = "return"
       /\ last.err = last.sends[1].err
       /\ last.resp = NoResponse

\* a Do call returned the transport's connection-refused error after a
\* single send to an address the registry had just resolved
C6_Witness ==
    /\ last.kind = "return"
    /\ RegistryFound(last)
    /\ Len(last.sends) = 1
    /\ last.sends[1].err = [msg |-> "connection refused"]
    /\ last.err = [msg |-> "connection refused"]

(* ------------------------------- C7 ------------------------------------- *)

\* the registry's timeout signal: the lookup timed out, or it answered 504
TimeoutSignal(l) ==
    \/ l.kind = "error"
    \/ l.kind = "response" /\ l.status = 504

\* C7: when the registry answers every lookup with its timeout signal, a
\* resolve operation ends after exactly 5 lookup attempts.
C7_FiveAttemptsOnTimeout ==
    \A c \in Observed :
        (/\ ResolutionOver(c)
         /\ \A i \in 1..Len(c.lookups) : TimeoutSignal(c.lookups[i]))
        => Len(c.lookups) = 5

(* ------------------------------- C8 ------------------------------------- *)

\* the registry's last answer had a status other than 200 and 404
OtherStatus(c) ==
    /\ c.lookups # <<>>
    /\ LastLookup(c).kind = "response"
    /\ LastLookup(c).status \notin {StatusOK, StatusNotFound}

\* C8: when the registry answers a lookup, service-level or instance-level,
\* with a status that is neither success nor not-found, resolution returns
\* an error carrying the status code and the logical address, and no
\* resolved address.
C8_OtherStatusIsAnErrorWithCodeAndAddress ==
    \A c \in Observed :
        OtherStatus(c) =>
            /\ {"code", "addr"} \subseteq DOMAIN c.err
            /\ c.err.code = LastLookup(c).status
            /\ c.err.addr = c.arg.Host
            /\ c.resolvedHostPort = Empty

\* a call got 504 from the instance-level lookup and ended with the error
\* that carries 504 and svc-1:9000
C8_Witness ==
    /\ Len(last.lookups) = 2
    /\ LastLookup(last).level = "instance"
    /\ LastLookup(last).status = 504
    /\ last.err = [msg |-> "got status while resolving in archimedes",
                   code |-> 504, addr |-> SvcAddr]

(* ------------------------------- C9 ------------------------------------- *)

\* the registry found the address but not with the requested port
PortNotExposed(c) ==
    /\ RegistryFound(c)
    /\ NewPort(SplitHostPort(c.arg.Host).port) \notin LastLookup(c).ports

\* C9: whenever resolution ends in an error (a status other than success and
\* not-found, or a port the resolved service does not expose), Do panics: it
\* returns neither a response nor an error and hands nothing to the
\* transport.
C9_ResolutionErrorPanics ==
    \A c \in Observed :
        OtherStatus(c) \/ PortNotExposed(c) =>
            /\ c.kind = "panic"
            /\ c.resp = NoResponse
            /\ c.sends = <<>>

\* a Do call panicked with the port error after the registry found the
\* service without the requested port
C9_Witness ==
    /\ last.kind = "panic"
    /\ PortNotExposed(last)
    /\ last.err = [msg |-> "port is not valid for service",
                   host |-> SplitHostPort(last.arg.Host).host]
    /\ last.sends = <<>>

(* ------------------------------- C10 ------------------------------------ *)

\* the Client has no initialization operation and no field that records
\* one: DefaultClient is the zero value &Client{}
ClientInitialized == FALSE

\* C10: a Do call on a client that has not been initialized makes no
\* registry lookup and no transport send.
C10_UninitializedClientDoesNothing ==
    ~ClientInitialized =>
        \A c \in Observed : c.lookups = <<>> /\ c.sends = <<>>

(* ------------------------------- C12 ------------------------------------ *)

\* the part of a host before its first '-' separator; the whole host when it
\* has none
BeforeFirstSeparator(host) ==
    LET seps == Positions(host, "-") IN
    IF seps = {} THEN host ELSE SubSeq(host, 1, Min(seps) - 1)

\* C12: the id a registry lookup is made for is the part of the logical host
\* before its first '-' separator (orders-service-7 gives orders), and the
\* whole host when the host has no separator.
C12_DeploymentIdIsHostPrefix ==
    \A c \in Observed :
        \A i \in 1..Len(c.lookups) :
            c.lookups[i].host
                = BeforeFirstSeparator(SplitHostPort(c.arg.Host).host)

(* ------------------------------- C13 ------------------------------------ *)

\* the transport and time limit the Client's fields ask for
Configured(cl) ==
    [transport |-> IF cl.Transport = "nil" THEN "DefaultTransport"
                   ELSE cl.Transport,
     timeout |-> cl.Timeout]

\* C13: every request Do sends and every registry lookup it makes goes
\* through the Client's configured Transport (DefaultTransport when the
\* field is nil) under the Client's configured Timeout.
C13_ConfiguredTransportAndTimeoutAreUsed ==
    \A c \in Observed :
        /\ \A i \in 1..Len(c.lookups) : c.lookups[i].via = Configured(client)
        /\ \A i \in 1..Len(c.sends) : c.sends[i].via = Configured(client)

(* ------------------------------- C14 ------------------------------------ *)

\* the request was built by Post or PostForm
BuiltByPost(r) == r.Method = "POST" /\ "Content-Type" \in DOMAIN r.Header

\* C14: the request that Post(url, contentType, body) hands to the transport
\* carries the Content-Type header equal to contentType, and the one
\* PostForm sends carries Content-Type application/x-www-form-urlencoded.
C14_PostContentTypeReachesTransport ==
    \A i \in 1..Len(last.sends) :
        LET sent == last.sends[i].request IN
        /\ BuiltByPost(last.arg) =>
            /\ "Content-Type" \in DOMAIN sent.Header
            /\ sent.Header["Content-Type"] = last.arg.Header["Content-Type"]
        /\ last.arg = PostFormSvc =>
            /\ "Content-Type" \in DOMAIN sent.Header
            /\ sent.Header["Content-Type"] = "application/x-www-form-urlencoded"

(* ------------------------------- C15 ------------------------------------ *)

\* what net/http's MaxBytesReader returns
OriginalMaxBytesReader(w, r, n) == [reader |-> r, limit |-> n, w |-> w]

\* the wrapper call returned, having done what net/http's function of the
\* same name does
ReturnedLikeOriginal(e) ==
    /\ e.how = "return"
    /\ e.call.fn = "HandleFunc" => <<e.call.pattern, e.call.handler>> \in mux
    /\ e.call.fn = "MaxBytesReader" =>
            e.result = OriginalMaxBytesReader(e.call.w, e.call.r, e.call.n)

\* C15: every call HandleFunc(pattern, handler) terminates and leaves handler
\* registered for pattern in the DefaultServeMux, and every call
\* MaxBytesReader(w, r, n) terminates and returns the reader net/http's
\* MaxBytesReader produces: a call that has ended has ended that way.
C15_WrappersTerminate ==
    ended # NotEnded => ReturnedLikeOriginal(ended)

(* ------------------------------- C16 ------------------------------------ *)

\* the addresses resolution can give call c for its own logical host:port,
\* given the registry's last answer to c
OwnResolutions(c) ==
    IF RegistryFound(c) THEN InstanceAddrs(c.arg.Host) ELSE {c.arg.Host}

\* request r is the request call c was given, but for its destination and
\* headers
OwnRequest(r, c) ==
    /\ r.Method = c.arg.Method
    /\ r.URL.Path = c.arg.URL.Path
    /\ r.Body = c.arg.Body

\* C16: with several Do calls under way on the same Client, whatever the
\* interleaving, each call asks the registry about its own host, sends its
\* own request to an address resolved for its own host:port, and returns
\* the response to the request it sent.
C16_ConcurrentCallsKeepTheirOwn ==
    /\ \A p \in Callers :
        pc[p] # "idle" =>
            /\ \A i \in 1..Len(lookups[p]) :
                lookups[p][i].host = SplitHostPort(arg[p].Host).host
            /\ pc[p] = "send" =>
                /\ req[p].URL.Host = resolvedHostPort[p]
                /\ req[p].URL.Host \in OwnResolutions(Under(p))
                /\ OwnRequest(req[p], Under(p))
    /\ \A i \in 1..Len(last.sends) :
        /\ last.sends[i].request.URL.Host \in OwnResolutions(last)
        /\ OwnRequest(last.sends[i].request, last)
        /\ last.err = NoErr => last.resp.Request = last.sends[i].request

\* two Do calls are under way at once, for orders-service-7:8080 and for
\* svc-1:9000, each about to send to the address resolved for it
C16_Witness ==
    \E p, q \in Callers :
        /\ pc[p] = "send" /\ pc[q] = "send"
        /\ arg[p].Host = OrdersAddr /\ arg[q].Host = SvcAddr
        /\ req[p].URL.Host = <<"10.0.0.6", ":", "30080">>
        /\ req[q].URL.Host = <<"10.0.0.5", ":", "9000">>

(* ------------------------------- C17 ------------------------------------ *)

\* the lookups of a call, in order: a service-level lookup, then an
\* instance-level lookup only after a not-found answer to the first
LookupsInOrder(lk) ==
    /\ Len(lk) <= 2
    /\ Len(lk) >= 1 => lk[1].level = "service"
    /\ Len(lk) = 2 =>
        /\ lk[2].level = "instance"
        /\ NotFoundAnswer(lk[1])

\* the registry has answered every lookup the call's resolution makes: the
\* service-level one, and the instance-level one if the first said not-found
LookupsComplete(lk) ==
    /\ lk # <<>>
    /\ NotFoundAnswer(lk[1]) => Len(lk) = 2

\* C17: one Do call makes at most two registry lookups and at most one
\* transport send, in this order: one service-level lookup; one
\* instance-level lookup only if the service-level lookup answered not-found
\* (never after success or another status); the send only after the last
\* lookup has answered.
C17_LookupsThenOneSend ==
    /\ \A c \in Observed :
        /\ LookupsInOrder(c.lookups)
        /\ Len(c.sends) <= 1
        /\ c.sends # <<>> => LookupsComplete(c.lookups)
    /\ \A p \in Callers :
        /\ pc[p] = "send" => LookupsComplete(lookups[p])
        /\ pc[p] = "instance" =>
            Len(lookups[p]) = 1 /\ NotFoundAnswer(lookups[p][1])

\* a Do call returned after a service-level lookup answered not-found, an
\* instance-level lookup answered 200, and one send
C17_Witness ==
    /\ last.kind = "return"
    /\ Len(last.lookups) = 2
    /\ NotFoundAnswer(last.lookups[1])
    /\ last.lookups[2].level = "instance"
    /\ last.lookups[2].status = StatusOK
    /\ Len(last.sends) = 1

(* ------------------------------- C18 ------------------------------------ *)

\* resolution ended by returning (a value or an error), not by a panic of
\* its own: Do went on to send, or panicked with the error it was handed
ResolutionReturned(c) ==
    \/ c.resolvedHostPort # Empty
    \/ c.kind = "panic" /\ c.err = PortError(SplitHostPort(c.arg.Host).host)

\* C18: for every registry answer that reports the address found, also one
\* that lists zero instances, resolution ends by returning: an error if the
\* requested port is not among the answer's ports, else the IP of a listed
\* instance with the requested port (local instance) or with the instance's
\* first translated host port for it (remote instance).
C18_FoundAnswerResolvesOrReturnsError ==
    \A c \in Observed :
        RegistryFound(c) /\ ResolutionOver(c) =>
            /\ ResolutionReturned(c)
            /\ IF PortNotExposed(c)
               THEN c.resolvedHostPort = Empty
               ELSE c.resolvedHostPort \in InstanceAddrs(c.arg.Host)

====
